---- MODULE Spec2Model ----
(***************************************************************************)
(* MiniViewer (src/miniviewer.py): the viewer's state machine -- the file  *)
(* list and cursor, the view transform, the rename overlay and the key     *)
(* bindings -- together with the filesystem it reads, renames and deletes. *)
(*                                                                         *)
(* Strings are sequences of character codes, a path is the sequence of its *)
(* components below the root: <<dir>> or <<dir, name>>.  Optional values   *)
(* (None in the code) are sequences of length 0 or 1.                      *)
(***************************************************************************)
EXTENDS Integers, Sequences, FiniteSets, TLC

VARIABLES
    pc,                  \* "init" before MiniViewer(start), "running" in mainloop, "crashed"
    disk,                \* the filesystem: existing file path -> "img" (decodable) | "bad"
    files,               \* self.files
    index,               \* self.index (0-based)
    zoom,                \* self.zoom, an exact fraction <<num, den>>
    fit_mode,            \* self.fit_mode
    rotation,            \* self.rotation
    image,               \* self.image: None or the decoded picture [path, size]
    fullscreen,          \* self.fullscreen
    rename_entry,        \* self.rename_entry: None or the Entry widget's text
    rename_current_path, \* self.rename_current_path
    bound,               \* the key sequences currently bound on the window
    status,              \* what the last event wrote to self.status, "none" if nothing
    alert,               \* the messagebox the last event raised, "none" if none
    opsUsed,             \* commands so far that changed the filesystem or the view
    budget               \* how many such commands the run allows

vars == <<pc, disk, files, index, zoom, fit_mode, rotation, image, fullscreen,
          rename_entry, rename_current_path, bound, status, alert, opsUsed, budget>>

\* the viewer's fields and the filesystem, without what an event reports
appVars == <<disk, files, index, zoom, fit_mode, rotation, image, fullscreen,
             rename_entry, rename_current_path, bound>>

(***************************************************************************)
(* Bounds of the model.                                                    *)
(***************************************************************************)
MaxOps == 1

\* the allowance of a run that only zooms, fits, rotates and resizes
MaxViewOps == 4

(***************************************************************************)
(* Optional values.                                                        *)
(***************************************************************************)
None == <<>>
Some(x) == <<x>>
Val(o) == o[1]

(***************************************************************************)
(* Strings.                                                                *)
(***************************************************************************)
\* a mutation of Max: the second argument is taken
Max_second(a, b) == b

Max(a, b) == IF a >= b THEN a ELSE b
Min(a, b) == IF a <= b THEN a ELSE b

\* str.lower() on one character (ASCII)
LowerChar(c) == IF c >= 65 /\ c <= 90 THEN c + 32 ELSE c
\* a mutation of lower: the string is compared as it is spelt
lower_asIs(s) == s

lower(s) == [i \in 1..Len(s) |-> LowerChar(s[i])]

\* str < str: by code point, a proper prefix first
StrLess(a, b) ==
    \E i \in 1..(Min(Len(a), Len(b)) + 1) :
        /\ \A j \in 1..(i - 1) : a[j] = b[j]
        /\ \/ i > Len(a) /\ i <= Len(b)
           \/ i <= Len(a) /\ i <= Len(b) /\ a[i] < b[i]

IsSpace(c) == c = 32 \/ c = 9

RECURSIVE lstrip(_)
lstrip(s) == IF s # <<>> /\ IsSpace(Head(s)) THEN lstrip(Tail(s)) ELSE s

RECURSIVE rstrip(_)
rstrip(s) == IF s # <<>> /\ IsSpace(s[Len(s)]) THEN rstrip(SubSeq(s, 1, Len(s) - 1)) ELSE s

\* a mutation of strip: the entry text is used as typed
strip_asTyped(s) == s

\* str.strip()
strip(s) == lstrip(rstrip(s))

\* str.rfind("."), 1-based, 0 when there is no dot
rfindDot(s) ==
    LET dots == {i \in 1..Len(s) : s[i] = 46}
    IN  IF dots = {} THEN 0 ELSE CHOOSE i \in dots : \A j \in dots : j <= i

(***************************************************************************)
(* Paths (pathlib).                                                        *)
(***************************************************************************)
Root == <<>>
parent(p) == SubSeq(p, 1, Len(p) - 1)
name(p) == IF p = <<>> THEN <<>> ELSE p[Len(p)]

\* PurePath.suffix: from the last dot of the name, unless the dot is first or last
suffix(p) ==
    LET n == name(p)
        i == rfindDot(n)
    IN  IF i > 1 /\ i < Len(n) THEN SubSeq(n, i, Len(n)) ELSE <<>>

\* PurePath.stem
stem(p) ==
    LET n == name(p)
        i == rfindDot(n)
    IN  IF i > 1 /\ i < Len(n) THEN SubSeq(n, 1, i - 1) ELSE n

\* parent / child
Join(dir, child) == Append(dir, child)

\* PurePath.__lt__: the component lists compared, a proper prefix first
PathLess(p, q) ==
    \E i \in 1..(Min(Len(p), Len(q)) + 1) :
        /\ \A j \in 1..(i - 1) : p[j] = q[j]
        /\ \/ i > Len(p) /\ i <= Len(q)
           \/ i <= Len(p) /\ i <= Len(q) /\ StrLess(p[i], q[i])

\* list.index(x), 0-based: the first position holding x
IndexOf(s, x) == (CHOOSE i \in 1..Len(s) : s[i] = x /\ \A j \in 1..(i - 1) : s[j] # x) - 1

Contains(s, x) == \E i \in 1..Len(s) : s[i] = x

\* list.pop(i) / del list[i], i 0-based
RemoveAt(s, i) == SubSeq(s, 1, i) \o SubSeq(s, i + 2, Len(s))

RECURSIVE InsertSorted(_, _)
InsertSorted(s, x) ==
    IF s = <<>> THEN <<x>>
    ELSE IF PathLess(x, Head(s)) THEN <<x>> \o s
    ELSE <<Head(s)>> \o InsertSorted(Tail(s), x)

RECURSIVE PathSort(_)
PathSort(s) == IF s = <<>> THEN <<>> ELSE InsertSorted(PathSort(SubSeq(s, 1, Len(s) - 1)), s[Len(s)])

\* a mutation of sort_paths: the list is left in insertion order
sort_paths_asIs(s) == s

\* list.sort() / sorted() on paths
sort_paths(s) == PathSort(s)

RECURSIVE SetToSeq(_)
SetToSeq(S) == IF S = {} THEN <<>> ELSE LET x == CHOOSE y \in S : TRUE IN <<x>> \o SetToSeq(S \ {x})

(***************************************************************************)
(* Fractions, for the zoom factor.                                         *)
(***************************************************************************)
RECURSIVE GCD(_, _)
GCD(a, b) == IF b = 0 THEN a ELSE GCD(b, a % b)

Norm(f) == LET g == GCD(f[1], f[2]) IN <<f[1] \div g, f[2] \div g>>
FMul(f, g) == Norm(<<f[1] * g[1], f[2] * g[2]>>)
FLess(f, g) == f[1] * g[2] < g[1] * f[2]
FMax(f, g) == IF FLess(f, g) THEN g ELSE f
FMin(f, g) == IF FLess(g, f) THEN g ELSE f

One == <<1, 1>>
ZoomMin == <<1, 20>>      \* 0.05
ZoomMax == <<8, 1>>       \* 8.0
KeyZoomIn == <<5, 4>>     \* 1.25
KeyZoomOut == <<4, 5>>    \* 0.8
WheelIn == <<11, 10>>     \* 1.1
WheelOut == <<9, 10>>     \* 0.9

(***************************************************************************)
(* The world the viewer runs in: directories "d", "e" and "h", no          *)
(* directory "g"; "d" holds a.jpg, b.PNG, a corrupt c.jpg and n.txt, "e"   *)
(* holds a.jpg alone and "h" is empty.  The viewer may be started on a     *)
(* path that does not exist: d/a.PNG, g, g/a.jpg.                          *)
(***************************************************************************)
DirD == <<100>>
DirE == <<101>>
DirG == <<103>>
DirH == <<104>>
DirNames == {DirD, DirE, DirH}

ExtJpg == <<46, 106, 112, 103>>
ExtPng == <<46, 80, 78, 71>>
ExtTxt == <<46, 116, 120, 116>>

FileA == <<DirD, <<97>> \o ExtJpg>>
FileB == <<DirD, <<98>> \o ExtPng>>
FileC == <<DirD, <<99>> \o ExtJpg>>
FileN == <<DirD, <<110>> \o ExtTxt>>
FileEA == <<DirE, <<97>> \o ExtJpg>>
GhostA == <<DirD, <<97>> \o ExtPng>>
GhostInG == <<DirG, <<97>> \o ExtJpg>>

InitDisk ==
    (FileA :> "img") @@ (FileB :> "img") @@ (FileC :> "bad") @@ (FileN :> "bad")
        @@ (FileEA :> "img")

\* sys.argv[1], resolved, or None
StartPaths == {None, Some(<<DirD>>), Some(<<DirE>>), Some(<<DirH>>), Some(<<DirG>>),
               Some(FileA), Some(FileN), Some(GhostA), Some(GhostInG)}

\* what the user types into the rename entry: " " and " a"
Texts == {<<32>>, <<32, 97>>}

\* strftime("%Y%m%d") of the file's mtime, here 2026-01-01
DateStr == <<50, 48, 50, 54, 48, 49, 48, 49>>

\* the size (width, height) of every decodable picture
Dims == <<4, 3>>

(***************************************************************************)
(* Module constants of miniviewer.py.                                      *)
(***************************************************************************)
SUPPORTED_EXTS ==
    { <<46, 104, 101, 105, 99>>, <<46, 104, 101, 105, 102>>, <<46, 106, 112, 103>>,
      <<46, 106, 112, 101, 103>>, <<46, 112, 110, 103>>, <<46, 119, 101, 98, 112>>,
      <<46, 98, 109, 112>>, <<46, 116, 105, 102, 102>> }

\* a mutation of CONFLICT_BINDINGS: the navigation keys are left out
CONFLICT_BINDINGS_noNav ==
    {"<Delete>", "<BackSpace>", "+", "=", "-", "0", "1", "r", "R", "t", "T", "f", "o", "O"}

\* a mutation of CONFLICT_BINDINGS: "f" was forgotten
CONFLICT_BINDINGS_noF ==
    {"<Left>", "<Right>", "<space>", "<Delete>", "<BackSpace>",
     "+", "=", "-", "0", "1", "r", "R", "t", "T", "o", "O"}

CONFLICT_BINDINGS ==
    {"<Left>", "<Right>", "<space>", "<Delete>", "<BackSpace>",
     "+", "=", "-", "0", "1", "r", "R", "t", "T", "f", "o", "O"}

\* every sequence _bind_keys binds
AllBindings ==
    {"<Left>", "<Right>", "<space>", "<BackSpace>", "<Delete>", "+", "=", "-", "0", "1",
     "r", "R", "t", "T", "f", "o", "O", "<Escape>", "<Return>", "<Configure>",
     "<MouseWheel>", "<Button-4>", "<Button-5>"}

(***************************************************************************)
(* The filesystem.                                                         *)
(***************************************************************************)
is_dir(p) == p = Root \/ (Len(p) = 1 /\ p[1] \in DirNames)
exists(p, dk) == p \in DOMAIN dk \/ is_dir(p)

\* Path.iterdir() of an existing directory
iterdir(d, dk) ==
    IF d = Root THEN {<<n>> : n \in DirNames}
    ELSE {x \in DOMAIN dk : parent(x) = d}

\* Image.open(path).convert("RGB") succeeds
Decodes(p, dk) == p \in DOMAIN dk /\ dk[p] = "img"

\* the filesystem after a successful rename(old, new) / unlink(old)
RenameOnDisk(dk, old, new) ==
    [x \in (DOMAIN dk \ {old}) \cup {new} |-> IF x = new THEN dk[old] ELSE dk[x]]
RemoveFromDisk(dk, old) == [x \in DOMAIN dk \ {old} |-> dk[x]]

(***************************************************************************)
(* The fields open_index works on, as one record; status is what the       *)
(* running handler has written so far.                                     *)
(***************************************************************************)
CurView ==
    [index |-> index, image |-> image, rotation |-> rotation,
     fit_mode |-> fit_mode, zoom |-> zoom, status |-> "none"]

SetView(v) ==
    /\ index' = v.index
    /\ image' = v.image
    /\ rotation' = v.rotation
    /\ fit_mode' = v.fit_mode
    /\ zoom' = v.zoom
    /\ status' = v.status

\* a mutation of WrapIndex: the index is clamped to the list instead of wrapped
WrapIndex_clamped(i, n) == IF i < 0 THEN 0 ELSE IF i >= n THEN n - 1 ELSE i

\* i % len(self.files)
WrapIndex(i, n) == i % n

\* open_index(i) on the list fl and the filesystem dk, from the view v
open_index(fl, i, dk, v) ==
    IF fl = <<>> THEN v
    ELSE LET idx == WrapIndex(i, Len(fl))
             path == fl[idx + 1]
         IN  IF Decodes(path, dk)
             THEN [index |-> idx, image |-> Some([path |-> path, size |-> Dims]),
                   rotation |-> 0, fit_mode |-> TRUE, zoom |-> One, status |-> "Opened"]
             ELSE [v EXCEPT !.index = idx, !.status = "FailedToOpen"]

\* sorted([x for x in d.iterdir() if x.suffix.lower() in SUPPORTED_EXTS])
Listing(d, dk) ==
    sort_paths(SetToSeq({x \in iterdir(d, dk) : lower(suffix(x)) \in SUPPORTED_EXTS}))

\* the tail of load_path: the empty-list message, or open_index(self.index)
LoadFinish(fl, dk, v) ==
    IF fl = <<>>
    THEN [raised |-> FALSE, files |-> fl, view |-> [v EXCEPT !.status = "NoImagesFound"]]
    ELSE [raised |-> FALSE, files |-> fl, view |-> open_index(fl, v.index, dk, v)]

\* load_path(p): the new list and view, or raised when iterdir() of a missing
\* parent throws (before self.files is assigned)
load_path(p, dk, fl, v) ==
    IF is_dir(p)
    THEN LoadFinish(Listing(p, dk), dk, [v EXCEPT !.index = 0])
    ELSE IF ~is_dir(parent(p))
    THEN [raised |-> TRUE, files |-> fl, view |-> v]
    ELSE LET found == Listing(parent(p), dk)
             nf == IF Contains(found, p) THEN found ELSE sort_paths(Append(found, p))
         IN  LoadFinish(nf, dk, [v EXCEPT !.index = IndexOf(nf, p)])

(***************************************************************************)
(* Construction.                                                           *)
(***************************************************************************)
Constructed ==
    /\ pc = "init"
    /\ disk = InitDisk
    /\ files = <<>>
    /\ index = 0
    /\ zoom = One
    /\ fit_mode = TRUE
    /\ rotation = 0
    /\ image = None
    /\ fullscreen = FALSE
    /\ rename_entry = None
    /\ rename_current_path = None
    /\ bound = AllBindings
    /\ status = "none"
    /\ alert = "none"
    /\ opsUsed = 0

Init == Constructed /\ budget = MaxOps

\* main(): MiniViewer(start) -- an exception out of load_path ends the process
Start ==
    /\ pc = "init"
    /\ \E sp \in StartPaths :
        IF sp = None
        THEN /\ pc' = "running"
             /\ status' = "OpenPrompt"
             /\ UNCHANGED <<files, index, image, rotation, fit_mode, zoom>>
        ELSE LET r == load_path(Val(sp), disk, files, [CurView EXCEPT !.status = "OpenPrompt"])
             IN  /\ pc' = IF r.raised THEN "crashed" ELSE "running"
                 /\ files' = r.files
                 /\ SetView(r.view)
    /\ UNCHANGED <<disk, fullscreen, rename_entry, rename_current_path, bound, alert,
                   opsUsed, budget>>

(***************************************************************************)
(* The handlers.  Each is the whole callback, on the viewer's fields.      *)
(***************************************************************************)
\* the handler raises no messagebox / writes no status
NoAlert == alert' = "none"
NoStatus == status' = "none"

\* a command that does not change the filesystem or the view transform
Free == UNCHANGED opsUsed

\* a command that changes the filesystem or the view transform: at most budget
\* of them take effect in a run
Spend == opsUsed < budget /\ opsUsed' = opsUsed + 1

\* next() / prev(): step is +1 or -1
navigate(step) ==
    /\ IF files = <<>>
       THEN UNCHANGED <<index, image, rotation, fit_mode, zoom>> /\ NoStatus
       ELSE SetView(open_index(files, index + step, disk, CurView))
    /\ UNCHANGED <<disk, files, fullscreen, rename_entry, rename_current_path, bound>>
    /\ NoAlert /\ Free

\* a mutation of ClampIndex: the cursor is left where it was
ClampIndex_none(i, n) == i

\* if self.index >= len(self.files): self.index = max(0, len(self.files) - 1)
ClampIndex(i, n) == IF i >= n THEN Max(0, n - 1) ELSE i

\* the view after the entry at the cursor has been removed from the list
AfterDelete(nf, dk, v) ==
    LET idx == ClampIndex(v.index, Len(nf))
    IN  IF nf # <<>>
        THEN open_index(nf, idx, dk, [v EXCEPT !.index = idx, !.status = "Deleted"])
        ELSE [v EXCEPT !.index = idx, !.image = None, !.status = "NoImagesLeft"]

\* a mutation of delete_current: the entry is dropped before the trash call is known to succeed
delete_current_optimistic ==
    /\ IF files = <<>>
       THEN UNCHANGED <<disk, files, index, image, rotation, fit_mode, zoom>> /\ NoStatus /\ Free
       ELSE LET path == files[index + 1]
                nf == RemoveAt(files, index)
            IN  \E ok \in BOOLEAN :
                  /\ files' = nf
                  /\ IF ok /\ path \in DOMAIN disk
                     THEN /\ Spend
                          /\ disk' = RemoveFromDisk(disk, path)
                          /\ SetView(AfterDelete(nf, disk', CurView))
                     ELSE /\ status' = "DeleteFailed"
                          /\ index' = ClampIndex(index, Len(nf))
                          /\ UNCHANGED <<disk, image, rotation, fit_mode, zoom>>
                          /\ Free
    /\ UNCHANGED <<fullscreen, rename_entry, rename_current_path, bound>>
    /\ NoAlert

\* delete_current(): ok is whether send2trash/unlink succeeds on an existing file
delete_current ==
    /\ IF files = <<>>
       THEN UNCHANGED <<disk, files, index, image, rotation, fit_mode, zoom>> /\ NoStatus /\ Free
       ELSE LET path == files[index + 1]
            IN  \E ok \in BOOLEAN :
                  IF ok /\ path \in DOMAIN disk
                  THEN /\ Spend
                       /\ disk' = RemoveFromDisk(disk, path)
                       /\ files' = RemoveAt(files, index)
                       /\ SetView(AfterDelete(files', disk', CurView))
                  ELSE /\ status' = "DeleteFailed"
                       /\ UNCHANGED <<disk, files, index, image, rotation, fit_mode, zoom>>
                       /\ Free
    /\ UNCHANGED <<fullscreen, rename_entry, rename_current_path, bound>>
    /\ NoAlert

\* cancel_rename(): with the entry open, destroy it and _bind_keys()
cancel_rename ==
    IF rename_entry # None
    THEN /\ rename_entry' = None
         /\ rename_current_path' = None
         /\ bound' = AllBindings
    ELSE UNCHANGED <<rename_entry, rename_current_path, bound>>

\* start_rename(use_date).  With an image but an empty list, self.files[self.index]
\* raises IndexError after the unbind loop has run; Tk reports it and goes on.
start_rename(use_date) ==
    /\ IF image = None
       THEN UNCHANGED <<rename_entry, rename_current_path, bound>> /\ NoStatus
       ELSE LET rebound == IF rename_entry # None THEN AllBindings ELSE bound
                cancelled == IF rename_entry # None THEN None ELSE rename_current_path
            IN  /\ bound' = rebound \ CONFLICT_BINDINGS
                /\ IF index >= Len(files)
                   THEN /\ rename_entry' = None
                        /\ rename_current_path' = cancelled
                        /\ NoStatus
                   ELSE LET path == files[index + 1]
                            stat_ok == exists(path, disk)
                        IN  /\ rename_current_path' = Some(path)
                            /\ rename_entry' =
                                  Some(IF use_date /\ stat_ok THEN DateStr \o <<95>> ELSE stem(path))
                            /\ status' = IF use_date /\ ~stat_ok THEN "DateError" ELSE "none"
    /\ UNCHANGED <<disk, files, index, image, rotation, fit_mode, zoom, fullscreen>>
    /\ NoAlert /\ Free

\* current_path.parent / (new_name_stem + extension)
TargetPath(cur, new_name_stem) == Join(parent(cur), new_name_stem \o suffix(cur))

\* a mutation of TargetExists: the conflict check is skipped
TargetExists_unchecked(new_path, dk) == FALSE

\* new_path.exists()
TargetExists(new_path, dk) == exists(new_path, dk)

\* do_rename(): ok is whether Path.rename succeeds on an existing file.  The
\* finally clause runs cancel_rename() on every path through the try block.
do_rename ==
    IF rename_entry = None
    THEN UNCHANGED appVars /\ NoStatus /\ NoAlert /\ Free
    ELSE LET new_name_stem == strip(Val(rename_entry))
             current_path == Val(rename_current_path)
             new_path == TargetPath(current_path, new_name_stem)
         IN  IF new_name_stem = <<>>
             THEN /\ status' = "RenameEmpty"
                  /\ UNCHANGED appVars
                  /\ NoAlert /\ Free
             ELSE IF new_path = current_path
             THEN /\ status' = "NameUnchanged"
                  /\ cancel_rename
                  /\ UNCHANGED <<disk, files, index, image, rotation, fit_mode, zoom, fullscreen>>
                  /\ NoAlert /\ Free
             ELSE IF TargetExists(new_path, disk)
             THEN /\ alert' = "Conflict"
                  /\ NoStatus
                  /\ cancel_rename
                  /\ UNCHANGED <<disk, files, index, image, rotation, fit_mode, zoom, fullscreen>>
                  /\ Free
             ELSE \E ok \in BOOLEAN :
                    /\ IF ok /\ current_path \in DOMAIN disk
                       THEN LET nf == sort_paths(Append(RemoveAt(files, index), new_path))
                                idx == IndexOf(nf, new_path)
                            IN  /\ Spend
                                /\ disk' = RenameOnDisk(disk, current_path, new_path)
                                /\ files' = nf
                                /\ SetView([open_index(nf, idx, disk', [CurView EXCEPT !.index = idx])
                                              EXCEPT !.status = "Renamed"])
                       ELSE /\ status' = "RenameFailed"
                            /\ UNCHANGED <<disk, files, index, image, rotation, fit_mode, zoom>>
                            /\ Free
                    /\ cancel_rename
                    /\ UNCHANGED fullscreen
                    /\ NoAlert

\* a mutation of RotateSize: the picture keeps its width and height
RotateSize_same(sz) == sz

\* Image.rotate(-deg, expand=True) for a quarter turn: width and height swap
RotateSize(sz) == <<sz[2], sz[1]>>

\* rotate(deg), deg = 90 or -90
rotate(deg) ==
    /\ IF image = None
       THEN UNCHANGED <<rotation, image>> /\ Free
       ELSE /\ Spend
            /\ rotation' = (rotation + deg) % 360
            /\ image' = Some([Val(image) EXCEPT !.size = RotateSize(@)])
    /\ UNCHANGED <<disk, files, index, zoom, fit_mode, fullscreen, rename_entry,
                   rename_current_path, bound>>
    /\ NoStatus /\ NoAlert

\* a mutation of ClampZoom: the requested value is stored as it is
ClampZoom_unclamped(z) == z

\* max(0.05, min(8.0, z))
ClampZoom(z) == FMax(ZoomMin, FMin(ZoomMax, z))

\* set_zoom(z)
set_zoom(z) ==
    /\ IF image = None
       THEN UNCHANGED <<zoom, fit_mode>> /\ Free
       ELSE Spend /\ zoom' = ClampZoom(z) /\ fit_mode' = FALSE
    /\ UNCHANGED <<disk, files, index, rotation, image, fullscreen, rename_entry,
                   rename_current_path, bound>>
    /\ NoStatus /\ NoAlert

\* zoom_by(factor)
zoom_by(factor) == set_zoom(FMul(zoom, factor))

\* a mutation of fit: the stored zoom is reset as well
fit_resetting ==
    /\ fit_mode' = TRUE
    /\ zoom' = One
    /\ UNCHANGED <<disk, files, index, rotation, image, fullscreen, rename_entry,
                   rename_current_path, bound>>
    /\ NoStatus /\ NoAlert /\ Free

\* fit()
fit ==
    /\ fit_mode' = TRUE
    /\ UNCHANGED <<disk, files, index, zoom, rotation, image, fullscreen, rename_entry,
                   rename_current_path, bound>>
    /\ NoStatus /\ NoAlert /\ Free

\* toggle_fullscreen()
toggle_fullscreen ==
    /\ Spend
    /\ fullscreen' = ~fullscreen
    /\ UNCHANGED <<disk, files, index, zoom, fit_mode, rotation, image, rename_entry,
                   rename_current_path, bound>>
    /\ NoStatus /\ NoAlert

\* exit_fullscreen()
exit_fullscreen == fullscreen' = FALSE

\* a mutation of cancel_rename_or_exit_fullscreen: Escape does both at once
cancel_rename_and_exit_fullscreen ==
    /\ cancel_rename
    /\ exit_fullscreen
    /\ UNCHANGED <<disk, files, index, zoom, fit_mode, rotation, image>>
    /\ NoStatus /\ NoAlert /\ Free

\* cancel_rename_or_exit_fullscreen()
cancel_rename_or_exit_fullscreen ==
    /\ IF rename_entry # None
       THEN cancel_rename /\ UNCHANGED fullscreen
       ELSE exit_fullscreen /\ UNCHANGED <<rename_entry, rename_current_path, bound>>
    /\ UNCHANGED <<disk, files, index, zoom, fit_mode, rotation, image>>
    /\ NoStatus /\ NoAlert /\ Free

\* open_dialog(): the user cancels, or picks an existing file or folder
open_dialog ==
    /\ \E choice \in {None} \cup {Some(f) : f \in DOMAIN disk} \cup {Some(<<d>>) : d \in DirNames} :
         IF choice = None
         THEN UNCHANGED <<files, index, image, rotation, fit_mode, zoom>> /\ NoStatus
         ELSE LET r == load_path(Val(choice), disk, files, CurView)
              IN  files' = r.files /\ SetView(r.view)
    /\ UNCHANGED <<disk, fullscreen, rename_entry, rename_current_path, bound>>
    /\ NoAlert /\ Free

\* redraw(): repaints the picture from the fields below and the canvas size
\* (see scale); none of these fields changes
redraw ==
    /\ UNCHANGED appVars
    /\ NoStatus /\ NoAlert /\ Free

(***************************************************************************)
(* Event delivery (_bind_keys): an event whose sequence is bound runs its  *)
(* handler; an unbound one reaches no handler of the viewer.               *)
(***************************************************************************)
Dropped == UNCHANGED appVars /\ NoStatus /\ NoAlert /\ Free

Deliver(k, handler) ==
    /\ pc = "running"
    /\ UNCHANGED <<pc, budget>>
    /\ IF k \in bound THEN handler ELSE Dropped

Prev == Deliver("<Left>", navigate(-1))
NextImage == \E k \in {"<Right>", "<space>"} : Deliver(k, navigate(1))
Delete == \E k \in {"<BackSpace>", "<Delete>"} : Deliver(k, delete_current)
ZoomIn == \E k \in {"+", "="} : Deliver(k, zoom_by(KeyZoomIn))
ZoomOut == Deliver("-", zoom_by(KeyZoomOut))
Fit == Deliver("0", fit)
Zoom100 == Deliver("1", set_zoom(One))
RotateCW == Deliver("r", rotate(90))
RotateCCW == Deliver("R", rotate(-90))
StartRename == Deliver("t", start_rename(FALSE))
StartRenameWithDate == Deliver("T", start_rename(TRUE))
ToggleFullscreen == Deliver("f", toggle_fullscreen)
Open == \E k \in {"o", "O"} : Deliver(k, open_dialog)
CancelOrExitFullscreen == Deliver("<Escape>", cancel_rename_or_exit_fullscreen)
CommitRename == Deliver("<Return>", do_rename)
Resize == Deliver("<Configure>", redraw)

\* _scroll_zoom (event.delta > 0 or not) and the Linux wheel buttons
WheelZoom ==
    \/ \E f \in {WheelIn, WheelOut} : Deliver("<MouseWheel>", zoom_by(f))
    \/ Deliver("<Button-4>", zoom_by(WheelIn))
    \/ Deliver("<Button-5>", zoom_by(WheelOut))

\* typing in the rename entry, which has the focus while it exists
EditText ==
    /\ pc = "running"
    /\ rename_entry # None
    /\ \E t \in Texts : rename_entry' = Some(t)
    /\ UNCHANGED <<pc, budget, disk, files, index, zoom, fit_mode, rotation, image,
                   fullscreen, rename_current_path, bound>>
    /\ NoStatus /\ NoAlert /\ Free

Next ==
    \/ Start
    \/ Prev
    \/ NextImage
    \/ Delete
    \/ ZoomIn
    \/ ZoomOut
    \/ Fit
    \/ Zoom100
    \/ RotateCW
    \/ RotateCCW
    \/ StartRename
    \/ StartRenameWithDate
    \/ ToggleFullscreen
    \/ Open
    \/ CancelOrExitFullscreen
    \/ CommitRename
    \/ Resize
    \/ WheelZoom
    \/ EditText

Spec == Init /\ [][Next]_vars

(***************************************************************************)
(* The viewer under view commands only, with a larger allowance: zoom,     *)
(* fit, rotate and resize events after start-up.                           *)
(***************************************************************************)
\* the arguments zoom_by passes to set_zoom at and beyond the ends of the
\* range: 8 * 1.25, 8 * 1.1, 0.05 * 0.8, 0.05 * 0.9, and 8 and 0.05 themselves
ZoomRequests == {<<10, 1>>, <<44, 5>>, <<1, 25>>, <<9, 200>>, ZoomMax, ZoomMin}

\* set_zoom(z) called with one of these arguments
SetZoomRequest ==
    /\ pc = "running"
    /\ UNCHANGED <<pc, budget>>
    /\ \E z \in ZoomRequests : set_zoom(z)

ViewInit == Constructed /\ budget = MaxViewOps

ViewNext ==
    \/ Start
    \/ ZoomIn
    \/ ZoomOut
    \/ Zoom100
    \/ WheelZoom
    \/ SetZoomRequest
    \/ Fit
    \/ RotateCW
    \/ RotateCCW
    \/ Resize

ViewSpec == ViewInit /\ [][ViewNext]_vars

(***************************************************************************)
(* Properties.                                                             *)
(***************************************************************************)
Renaming == rename_entry # None
Browse == rename_entry = None

\* the single-key commands of _bind_keys: navigation, zoom, fit, rotate, delete,
\* open, start-rename and the fullscreen toggle
KeyCommand ==
    \/ Prev \/ NextImage \/ ZoomIn \/ ZoomOut \/ Fit \/ Zoom100 \/ RotateCW \/ RotateCCW
    \/ Delete \/ Open \/ StartRename \/ StartRenameWithDate \/ ToggleFullscreen

\* what a dropped command must leave alone
Protected == <<files, index, zoom, fit_mode, rotation, fullscreen>>

\* the stem is blank after trimming: nothing but white space
IsBlank(t) == \A i \in 1..Len(t) : IsSpace(t[i])

\* the draft of an open rename: the entry being renamed and the path a commit targets
DraftPath == Val(rename_current_path)
DraftTarget == TargetPath(DraftPath, strip(Val(rename_entry)))
DraftKept == rename_entry' = rename_entry /\ rename_current_path' = rename_current_path

IsSortedPaths(s) == \A i \in 1..Len(s) : \A j \in i..Len(s) : ~PathLess(s[j], s[i])
Count(s, x) == Cardinality({i \in 1..Len(s) : s[i] = x})

\* C1 (as amended): while Renaming, every single-key command -- Prev, Next, ZoomIn,
\* ZoomOut, Fit, Zoom100, RotateCW, RotateCCW, Delete, Open, StartRename and
\* ToggleFullscreen -- is dropped: the file list, cursor, zoom, fit flag, rotation
\* and fullscreen flag stay as they are.  (The mouse wheel is not among them.)
C1_KeyCommandsDroppedWhileRenaming ==
    [][(Renaming /\ KeyCommand) => UNCHANGED Protected]_vars

\* C1 witness: a Renaming state in which the fullscreen key is delivered and dropped
C1_Witness ==
    /\ pc = "running"
    /\ Renaming
    /\ ENABLED (ToggleFullscreen /\ UNCHANGED appVars)

\* C1 as stated: while Renaming, the mouse-wheel zoom is dropped too
C1_Original ==
    [][(Renaming /\ (KeyCommand \/ WheelZoom)) => UNCHANGED Protected]_vars

\* C2: whenever no rename entry exists, the navigation, zoom, rotate, delete, open,
\* start-rename and fullscreen keys are bound
C2_BrowseKeysBound == Browse => CONFLICT_BINDINGS \subseteq bound

\* C3: a commit whose non-blank stem names another, existing path leaves the
\* viewer in Renaming with the draft as it was
C3_ConflictKeepsDraft ==
    [][(/\ Renaming
        /\ ~IsBlank(Val(rename_entry))
        /\ DraftTarget # DraftPath
        /\ exists(DraftTarget, disk)
        /\ CommitRename) => DraftKept]_vars

\* C4: a commit with a blank stem stays in Renaming, keeps the draft, reports the
\* empty name, and leaves the file list, the cursor and the filesystem alone
C4_BlankCommitRejected ==
    [][(Renaming /\ IsBlank(Val(rename_entry)) /\ CommitRename)
          => /\ DraftKept
             /\ status' = "RenameEmpty"
             /\ UNCHANGED <<files, index, disk, bound>>]_vars

\* C4 witness: a blank commit has been reported and the entry is still open
C4_Witness ==
    /\ Renaming
    /\ IsBlank(Val(rename_entry))
    /\ status = "RenameEmpty"

\* C5: a commit rejected as a no-op (target = current path) or as a conflict (target
\* exists) changes neither the filesystem nor the file list nor the cursor
C5_RejectedCommitChangesNothing ==
    [][(/\ Renaming
        /\ ~IsBlank(Val(rename_entry))
        /\ (DraftTarget = DraftPath \/ exists(DraftTarget, disk))
        /\ CommitRename) => UNCHANGED <<disk, files, index>>]_vars

\* C5 witness: a commit has just been refused with the conflict box, and the
\* entry that was to be renamed is still listed and on disk
C5_Witness ==
    /\ alert = "Conflict"
    /\ files # <<>>
    /\ files[index + 1] \in DOMAIN disk

\* C6: after a successful commit the list is the old one with the renamed entry
\* replaced by the new path, sorted, of the same length; the cursor is the index of
\* the new path; the draft is gone and the keys are bound again
C6_RenameUpdatesList ==
    [][(Renaming /\ CommitRename /\ disk' # disk)
          => /\ files[index + 1] = DraftPath
             /\ DraftTarget \in DOMAIN disk' /\ DraftPath \notin DOMAIN disk'
             /\ Len(files') = Len(files)
             /\ \A p \in {files[i] : i \in 1..Len(files)} \cup {DraftTarget} :
                   Count(files', p) = Count(files, p)
                                        - (IF p = DraftPath THEN 1 ELSE 0)
                                        + (IF p = DraftTarget THEN 1 ELSE 0)
             /\ IsSortedPaths(files')
             /\ files'[index' + 1] = DraftTarget
             /\ \A j \in 1..index' : files'[j] # DraftTarget
             /\ rename_entry' = None /\ rename_current_path' = None
             /\ bound' = AllBindings]_vars

\* C6 witness: b.PNG has been renamed to a.PNG, which moved it to the front of
\* the list, and the viewer is back in Browse
C6_Witness ==
    /\ status = "Renamed"
    /\ Browse
    /\ Len(files) >= 2
    /\ index = 0
    /\ files[1] = GhostA
    /\ GhostA \in DOMAIN disk
    /\ FileB \notin DOMAIN disk

\* C7: the file list is strictly ascending by path
C7_FilesStrictlySorted ==
    \A i \in 1..(Len(files) - 1) : PathLess(files[i], files[i + 1])

\* where a step of +1 / -1 must put the cursor
Wrapped(step) ==
    IF step = 1
    THEN IF index = Len(files) - 1 THEN 0 ELSE index + 1
    ELSE IF index = 0 THEN Len(files) - 1 ELSE index - 1

NavigatesBy(step) ==
    IF files = <<>>
    THEN UNCHANGED appVars
    ELSE /\ files' = files
         /\ index' = Wrapped(step)
         /\ open_index(files', index' - step, disk', CurView').index = index

\* C8: with the navigation keys bound, Next moves the cursor to index+1, from N-1 to
\* 0, Prev to index-1, from 0 to N-1, and the opposite command then leads back;
\* with an empty list neither changes anything
C8_NavigationWraps ==
    [][({"<Left>", "<Right>", "<space>"} \subseteq bound)
          => /\ NextImage => NavigatesBy(1)
             /\ Prev => NavigatesBy(-1)]_vars

\* C8 witness: Next at the last of several entries, leading to the first
C8_Witness ==
    /\ Len(files) >= 2
    /\ index = Len(files) - 1
    /\ "<Right>" \in bound
    /\ ENABLED (NextImage /\ index' = 0 /\ image' # image)

\* C9: a successful Delete removes the entry at the cursor i of N; the cursor stays
\* i when i < N-1 and is max(0, N-2) when i = N-1; for N = 1 the list is empty and
\* no image is loaded; on an empty list Next and Prev change nothing
C9_DeleteRemovesCurrent ==
    [][/\ (Delete /\ disk' # disk)
          => /\ Len(files') = Len(files) - 1
             /\ \A j \in 1..Len(files') :
                   files'[j] = IF j <= index THEN files[j] ELSE files[j + 1]
             /\ index' = IF index < Len(files) - 1 THEN index ELSE Max(0, Len(files) - 2)
             /\ Len(files) = 1 => (files' = <<>> /\ image' = None)
       /\ (files = <<>> /\ (NextImage \/ Prev)) => UNCHANGED appVars]_vars

\* C9 witness: the only entry has been deleted
C9_Witness ==
    /\ status = "NoImagesLeft"
    /\ files = <<>>
    /\ image = None
    /\ "<Right>" \in bound

\* C10: a Delete or a commit that leaves the filesystem as it was (the trash,
\* unlink or rename call failed, or was never made) leaves the list and the cursor
C10_FailedFsOpKeepsList ==
    [][((Delete \/ CommitRename) /\ disk' = disk) => UNCHANGED <<files, index>>]_vars

\* C10 witness: a delete has failed on a file that exists, and the file is still listed
C10_Witness ==
    /\ status = "DeleteFailed"
    /\ files # <<>>
    /\ files[index + 1] \in DOMAIN disk

\* the cursor comes to rest on an entry other than the one it was on
MovesToOtherEntry ==
    /\ files' # <<>>
    /\ (files = <<>> \/ index' # index \/ files'[index' + 1] # files[index + 1])

DefaultView == zoom = One /\ fit_mode = TRUE /\ rotation = 0

\* C11: every step that moves the cursor to a different entry (Next, Prev, Delete,
\* open, rename) ends with zoom = 1.0, fit_mode = true and rotation = 0, whether or
\* not the new entry decodes
C11_CursorMoveResetsView == [][MovesToOtherEntry => DefaultView']_vars

\* max(0.05, min(8.0, z)) written out by cases
ClampedTo(z) ==
    IF FLess(ZoomMax, z) THEN ZoomMax ELSE IF FLess(z, ZoomMin) THEN ZoomMin ELSE z

ZoomedTo(z) == zoom' = ClampedTo(z) /\ fit_mode' = FALSE

\* with no image loaded set_zoom returns at once
ZoomedToIfImage(z) == IF image # None THEN ZoomedTo(z) ELSE UNCHANGED <<zoom, fit_mode>>

ZoomInRange == ~FLess(zoom, ZoomMin) /\ ~FLess(ZoomMax, zoom)

\* every zoom command that reaches its handler has the effect Effect(requested value)
ZoomStepsMeet(Effect(_)) ==
    /\ (ZoomIn /\ "+" \in bound) => Effect(FMul(zoom, KeyZoomIn))
    /\ (ZoomOut /\ "-" \in bound) => Effect(FMul(zoom, KeyZoomOut))
    /\ (Zoom100 /\ "1" \in bound) => Effect(One)
    /\ WheelZoom => \E f \in {WheelIn, WheelOut} : Effect(FMul(zoom, f))
    /\ SetZoomRequest => \E z \in ZoomRequests : Effect(z)

\* C12 (as amended): with an image loaded, every zoom command -- set_zoom(z), and
\* zoom_by(factor) as set_zoom(zoom * factor), by key or by mouse wheel -- leaves
\* zoom equal to the requested value clamped to [0.05, 8.0] and fit_mode false; with
\* no image loaded it leaves zoom and fit_mode as they are; zoom is within
\* [0.05, 8.0] in every reachable state
C12_ZoomClamped == [][ZoomStepsMeet(ZoomedToIfImage) /\ ZoomInRange']_vars

\* C12 witness: an image is shown at zoom 8.0 and one more zoom-in is clamped to 8.0
C12_Witness ==
    /\ image # None
    /\ zoom = ZoomMax
    /\ fit_mode = FALSE
    /\ ENABLED (ZoomIn /\ zoom' = ZoomMax /\ opsUsed' = opsUsed + 1)

\* C12 as stated: every zoom command sets zoom to the clamped request and fit_mode
\* to false, image or no image
C12_Original == [][ZoomStepsMeet(ZoomedTo) /\ ZoomInRange']_vars

(***************************************************************************)
(* What redraw() paints: the scale it applies on a canvas of cw x ch.      *)
(***************************************************************************)
\* winfo_width(), winfo_height() of the canvas, both above 1
Canvases == {<<8, 3>>, <<2, 6>>, <<40, 30>>}

\* min(cw / img.width, ch / img.height), at least 0.05
fit_scale(cw, ch) ==
    LET sz == Val(image).size
    IN  FMax(FMin(Norm(<<cw, sz[1]>>), Norm(<<ch, sz[2]>>)), ZoomMin)

\* scale in redraw()
scale(cw, ch) == IF fit_mode THEN fit_scale(cw, ch) ELSE zoom

\* with fit_mode off the picture is painted at the stored zoom, on every canvas
ScaleIsZoomUnlessFit ==
    (image # None /\ ~fit_mode) => \A c \in Canvases : scale(c[1], c[2]) = zoom

Quarters == {0, 90, 180, 270}

\* the quarter turn after r, clockwise: a cycle of length four
NextQuarter(r) ==
    CASE r = 0 -> 90 [] r = 90 -> 180 [] r = 180 -> 270 [] r = 270 -> 0 [] OTHER -> -1

Swapped(sz) == <<sz[2], sz[1]>>

\* the picture's width and height are those it was decoded with at 0 and 180
\* degrees and the two exchanged at 90 and 270
SizeFollowsRotation ==
    image # None =>
        Val(image).size = IF rotation \in {0, 180} THEN Dims ELSE Swapped(Dims)

\* C14: rotation is one of 0, 90, 180, 270; with an image loaded rotate(90) moves
\* rotation one step round the cycle 0 -> 90 -> 180 -> 270 -> 0 and rotate(-90) one
\* step back, each exchanging width and height, so that four rotate(90), or
\* rotate(90) then rotate(-90), restore rotation, width and height
C14_RotationCycles ==
    [][/\ rotation' \in Quarters
       /\ (RotateCW /\ "r" \in bound /\ image # None)
             => /\ rotation' = NextQuarter(rotation)
                /\ Val(image').size = Swapped(Val(image).size)
       /\ (RotateCCW /\ "R" \in bound /\ image # None)
             => /\ NextQuarter(rotation') = rotation
                /\ Val(image').size = Swapped(Val(image).size)
       /\ SizeFollowsRotation'
       /\ \A r \in Quarters :
             NextQuarter(NextQuarter(NextQuarter(NextQuarter(r)))) = r]_vars

\* C14 witness: after three effective commands the picture stands at 270 degrees,
\* and the next rotate(90) brings it back to 0 with its decoded width and height
C14_Witness ==
    /\ image # None
    /\ rotation = 270
    /\ opsUsed = 3
    /\ Val(image).size = Swapped(Dims)
    /\ ENABLED (RotateCW /\ rotation' = 0 /\ Val(image').size = Dims)

\* C15: Escape while Renaming discards the draft, returns to Browse with the keys
\* bound, and leaves the fullscreen flag, the file list and the cursor as they are,
\* fullscreen or not; Escape in Browse clears the fullscreen flag and changes
\* nothing else
C15_EscapeCancelsFirst ==
    [][CancelOrExitFullscreen
         => IF Renaming
            THEN /\ rename_entry' = None
                 /\ rename_current_path' = None
                 /\ bound' = AllBindings
                 /\ UNCHANGED <<fullscreen, files, index, disk, zoom, fit_mode, rotation, image>>
            ELSE /\ fullscreen' = FALSE
                 /\ UNCHANGED <<files, index, disk, zoom, fit_mode, rotation, image,
                                rename_entry, rename_current_path, bound>>]_vars

\* C15 witness: Renaming in fullscreen, where one Escape leads to Browse still in
\* fullscreen, so that leaving fullscreen takes a second one
C15_Witness ==
    /\ Renaming
    /\ fullscreen = TRUE
    /\ ENABLED (CancelOrExitFullscreen /\ rename_entry' = None /\ fullscreen' = TRUE)

\* C16: opening a path whose target or parent directory does not exist never ends
\* the process
C16_OpenNeverCrashes == pc # "crashed"

\* the paths an open can be given: the start paths and what the dialogs return
OpenTargets ==
    {Val(sp) : sp \in StartPaths \ {None}} \cup DOMAIN disk \cup {<<d>> : d \in DirNames}

\* the extension is a recognized one in some spelling of upper and lower case:
\* of the world's extensions, .jpg and .PNG
Recognized(x) == suffix(x) \in {ExtJpg, ExtPng}

SetOf(s) == {s[i] : i \in 1..Len(s)}

\* the list and cursor that opening p must produce on the filesystem dk
LoadedAs(p, dk) ==
    IF is_dir(p)
    THEN /\ index' = 0
         /\ SetOf(files') = {x \in DOMAIN dk : parent(x) = p /\ Recognized(x)}
         /\ \A i \in 1..(Len(files') - 1) : PathLess(files'[i], files'[i + 1])
    ELSE /\ files' # <<>>
         /\ files'[index' + 1] = p
         /\ SetOf(files') = {x \in DOMAIN dk : parent(x) = parent(p) /\ Recognized(x)} \cup {p}
         /\ \A i \in 1..(Len(files') - 1) : PathLess(files'[i], files'[i + 1])

C18_CursorValid ==
    IF files = <<>> THEN index = 0 ELSE index >= 0 /\ index < Len(files)

\* C18 witness: the last entry of several has been deleted and the cursor has moved
\* back onto the new last entry
C18_Witness ==
    /\ status \in {"Opened", "FailedToOpen"}
    /\ FileC \notin DOMAIN disk
    /\ Len(files) >= 2
    /\ index = Len(files) - 1

\* C19: the entry widget and the path being renamed exist together, exactly while
\* Renaming, and then that path is the list entry at the cursor
C19_DraftIsCurrentEntry ==
    /\ (rename_entry = None) <=> (rename_current_path = None)
    /\ Renaming => (/\ files # <<>>
                    /\ index < Len(files)
                    /\ files[index + 1] = DraftPath)

\* C19 witness: Renaming with the cursor off the first entry, the draft typed over,
\* and a mouse-wheel zoom done since the rename began
C19_Witness ==
    /\ Renaming
    /\ index > 0
    /\ Val(rename_entry) \in Texts
    /\ zoom # One
    /\ files[index + 1] = DraftPath

\* C20: when an image is loaded the list is not empty and the image is the one
\* decoded from the entry at the cursor
C20_ImageIsCurrentEntry ==
    image # None => (/\ files # <<>>
                     /\ index < Len(files)
                     /\ Val(image).path = files[index + 1])

====
